---- MODULE Spec2Model ----
(***************************************************************************)
(* Model of wayland-egl-ctx (src/main.rs): one Wayland client that binds   *)
(* wl_compositor and xdg_wm_base, creates an xdg toplevel, attaches an EGL *)
(* window to it and runs a dispatch / draw / swap loop until the toplevel  *)
(* is closed.                                                              *)
(*                                                                         *)
(* The compositor is the environment: it puts events on the client's event *)
(* queue.  Every handler of the four Dispatch impls is one action; `trace` *)
(* records, in program order, each shell event a handler was invoked with  *)
(* and each request / graphics call the program issued on the objects it   *)
(* created.  Registry traffic changes the two bindings only.               *)
(***************************************************************************)
EXTENDS Integers, Sequences, FiniteSets, TLC

\* ---------------------------------------------------------------- bounds
MaxEvents  == 2      \* shell events (ping / configure / close) the compositor sends
MaxGlobals == 2      \* registry events the compositor sends
MaxFrames  == 2      \* iterations of the present loop that are explored

\* ------------------------------------------------------- input alphabets
Serials    == {1, 2}
\* (width, height) of the toplevel configure events the compositor may send:
\* zero in either or both dimensions, the initial size, one or both
\* dimensions changed, a negative dimension
ConfigureSizes == {<<0, 0>>, <<0, 480>>, <<800, 0>>, <<320, 240>>,
                   <<320, 600>>, <<800, 600>>, <<-1, 600>>}
Interfaces == {"wl_compositor", "xdg_wm_base", "wl_shm"}

\* ------------------------------------------------------ program constants
InitialWidth  == 320
InitialHeight == 240

VARIABLES
    pc,             \* position of main()
    result,         \* what main() returned ("none" while it runs)
    width, height, running,
    wl_compositor, xdg_wm_base,             \* Option<..>: TRUE = Some
    wl_surface, xdg_surface, xdg_toplevel,  \* Option<..>: TRUE = Some
    egl_window,     \* Option<Rc<WlEglSurface>> with the size it was given
    egl_display, egl_surface, egl_context,  \* Option<..>: TRUE = Some
    gl_program,     \* GLuint, 0 = no program
    queue,          \* events read from the socket, not yet dispatched
    registry_sent,  \* number of registry events the compositor has sent
    binds,          \* interfaces a registry.bind request was issued for
    trace           \* shell events handled and requests / graphics calls
                    \* issued on the created objects, in program order

vars == <<pc, result, width, height, running, wl_compositor, xdg_wm_base,
          wl_surface, xdg_surface, xdg_toplevel, egl_window, egl_display,
          egl_surface, egl_context, gl_program, queue, registry_sent,
          binds, trace>>

appState == <<width, height, running, wl_compositor, xdg_wm_base>>
handles  == <<wl_surface, xdg_surface, xdg_toplevel>>
eglState == <<egl_window, egl_display, egl_surface, egl_context, gl_program>>

\* ----------------------------------------------------------- trace items
Msg(n, i, a, b) == [n |-> n, i |-> i, a |-> a, b |-> b]
Ev(e)           == [k |-> "ev",  n |-> e.n, i |-> e.i, a |-> e.a, b |-> e.b]
Req(n, a, b)    == [k |-> "req", n |-> n, i |-> "", a |-> a, b |-> b]

NoWindow        == [present |-> FALSE, w |-> 0, h |-> 0]
Window(w, h)    == [present |-> TRUE,  w |-> w, h |-> h]

RECURSIVE CountIf(_, _, _)
CountIf(s, n, k) ==
    IF s = <<>> THEN 0
    ELSE (IF Head(s).n = n /\ Head(s).k = k THEN 1 ELSE 0) + CountIf(Tail(s), n, k)

RegistryEvents == {"global", "global_remove"}
ShellEvents    == {"ping", "xdg_surface_configure", "toplevel_configure",
                   "toplevel_close", "toplevel_configure_bounds"}

RECURSIVE CountEvents(_, _)
CountEvents(s, names) ==
    IF s = <<>> THEN 0
    ELSE (IF Head(s).n \in names THEN 1 ELSE 0) + CountEvents(Tail(s), names)

\* events of a kind the compositor has sent so far (dispatched or still queued)
Sent(names) == CountEvents(trace, names) + CountEvents(queue, names)

Frames == CountIf(trace, "draw", "req")

\* ------------------------------------------------------------------ Init
\* WaylandEGLState::new (main.rs:73-98) followed by main.rs:262-266
Init ==
    /\ pc = "roundtrip"
    /\ result = "none"
    /\ width = InitialWidth
    /\ height = InitialHeight
    /\ running = TRUE
    /\ wl_compositor = FALSE
    /\ xdg_wm_base = FALSE
    /\ wl_surface = FALSE
    /\ xdg_surface = FALSE
    /\ xdg_toplevel = FALSE
    /\ egl_window = NoWindow
    /\ egl_display = FALSE
    /\ egl_surface = FALSE
    /\ egl_context = FALSE
    /\ gl_program = 0
    /\ queue = <<>>
    /\ registry_sent = 0
    /\ binds = {}
    /\ trace = <<>>

\* ----------------------------------------------------------- environment
\* Events the compositor may send now: the registry's globals while main()
\* waits in the initial roundtrip, ping once xdg_wm_base is bound,
\* configure / close once the object exists.
Deliverable ==
    (IF pc = "roundtrip" /\ registry_sent < MaxGlobals
     THEN {Msg("global", i, 0, 0) : i \in Interfaces}
          \cup {Msg("global_remove", "", 0, 0)}
     ELSE {})
    \cup
    (IF Sent(ShellEvents) < MaxEvents
     THEN (IF xdg_wm_base THEN {Msg("ping", "", s, 0) : s \in Serials} ELSE {})
          \cup (IF xdg_surface
                THEN {Msg("xdg_surface_configure", "", s, 0) : s \in Serials}
                ELSE {})
          \cup (IF xdg_toplevel
                THEN {Msg("toplevel_configure", "", wh[1], wh[2]) : wh \in ConfigureSizes}
                     \cup {Msg("toplevel_close", "", 0, 0),
                           Msg("toplevel_configure_bounds", "", 0, 0)}
                ELSE {})
     ELSE {})

\* Events reach the queue when the socket is read: in roundtrip
\* (main.rs:268) and inside the EGL calls of init_egl and swap_buffers
\* (main.rs:298, 303-305).  dispatch_pending (main.rs:300) does not read the
\* socket: a drain pass handles what is queued when it starts.
Deliver ==
    /\ pc \in {"roundtrip", "init_egl", "swap"}
    /\ \E e \in Deliverable :
        /\ queue' = Append(queue, e)
        /\ registry_sent' = registry_sent + (IF e.n \in RegistryEvents THEN 1 ELSE 0)
    /\ UNCHANGED <<pc, result, appState, handles, eglState, binds, trace>>

\* -------------------------------------------------------- event handlers
\* variant: the queue is also dispatched before init_egl is called
Dispatching_early == pc \in {"roundtrip", "init_egl", "dispatch"} /\ queue # <<>>

Dispatching == pc \in {"roundtrip", "dispatch"} /\ queue # <<>>

\* variant: the xdg_wm_base arm is taken by every event that is not a
\* wl_compositor global
BindsShell_default(e) == e.i # "wl_compositor"

\* if let Global { .. } and the arm "xdg_wm_base" (main.rs:351-358)
BindsShell(e) == e.n = "global" /\ e.i = "xdg_wm_base"

\* if let Global { .. } and the arm "wl_compositor" (main.rs:351-366)
BindsCompositor(e) == e.n = "global" /\ e.i = "wl_compositor"

\* Dispatch<wl_registry::WlRegistry>::event (main.rs:341-378)
RegistryEvent ==
    /\ Dispatching
    /\ Head(queue).n \in RegistryEvents
    /\ LET e == Head(queue) IN
        /\ queue' = Tail(queue)
        /\ IF BindsShell(e)
           THEN /\ xdg_wm_base' = TRUE
                /\ wl_compositor' = wl_compositor
                /\ binds' = binds \cup {"xdg_wm_base"}
           ELSE IF BindsCompositor(e)
           THEN /\ wl_compositor' = TRUE
                /\ xdg_wm_base' = xdg_wm_base
                /\ binds' = binds \cup {"wl_compositor"}
           ELSE UNCHANGED <<wl_compositor, xdg_wm_base, binds>>
    /\ UNCHANGED <<pc, result, width, height, running, handles, eglState,
                   registry_sent, trace>>

\* Dispatch<xdg_wm_base::XdgWmBase>::event (main.rs:380-394)
XdgWmBaseEvent ==
    /\ Dispatching
    /\ Head(queue).n = "ping"
    /\ LET e == Head(queue) IN
        /\ queue' = Tail(queue)
        /\ trace' = trace \o <<Ev(e), Req("pong", e.a, 0)>>
    /\ UNCHANGED <<pc, result, appState, handles, eglState, registry_sent, binds>>

\* variant: the ack is skipped once the toplevel has been closed
AcksConfigure_running == running

\* if let Configure { serial } = event (main.rs:406): no other condition
AcksConfigure == TRUE

\* Dispatch<xdg_surface::XdgSurface>::event (main.rs:396-410)
XdgSurfaceEvent ==
    /\ Dispatching
    /\ Head(queue).n = "xdg_surface_configure"
    /\ LET e == Head(queue) IN
        /\ queue' = Tail(queue)
        /\ trace' = IF AcksConfigure
                    THEN trace \o <<Ev(e), Req("ack_configure", e.a, 0)>>
                    ELSE Append(trace, Ev(e))
    /\ UNCHANGED <<pc, result, appState, handles, eglState, registry_sent, binds>>

\* variant: only a configure with both dimensions zero is ignored
IgnoresConfigure_both(w, h) == w = 0 /\ h = 0

\* if width == 0 || height == 0 { return; } (main.rs:424-426)
IgnoresConfigure(w, h) == w = 0 \/ h = 0

\* variant: the comparison with the stored size is missing
SizeDiffers_always(w, h) == TRUE

\* if state.width != width || state.height != height (main.rs:428)
SizeDiffers(w, h) == width # w \/ height # h

\* variant: the surface is committed before the window is resized
ResizeRequests_commitFirst(w, h) == <<Req("commit", 0, 0), Req("resize", w, h)>>

\* the requests of main.rs:432-437, in program order
ResizeRequests(w, h) == <<Req("resize", w, h), Req("commit", 0, 0)>>

\* variant: the window is resized before the new size is stored
ResizeTo_stale(w, h) == Window(width, height)

\* egl_window.resize(state.width, state.height, 0, 0) after the stores of
\* main.rs:429-430 (main.rs:432-436)
ResizeTo(w, h) == Window(w, h)

\* variant: every toplevel event that is not a configure ends the loop
ClosesOn_other(n) == n # "toplevel_configure"

\* the arm xdg_toplevel::Event::Close {} (main.rs:440)
ClosesOn(n) == n = "toplevel_close"

\* Dispatch<xdg_toplevel::XdgToplevel>::event (main.rs:412-446)
XdgToplevelEvent ==
    /\ Dispatching
    /\ Head(queue).n \in {"toplevel_configure", "toplevel_close",
                          "toplevel_configure_bounds"}
    /\ LET e == Head(queue) IN
        /\ queue' = Tail(queue)
        /\ IF e.n = "toplevel_configure"
           THEN IF IgnoresConfigure(e.a, e.b)
                THEN /\ trace' = Append(trace, Ev(e))
                     /\ UNCHANGED <<pc, result, width, height, running, egl_window>>
                ELSE IF SizeDiffers(e.a, e.b)
                THEN /\ width' = e.a
                     /\ height' = e.b
                     /\ running' = running
                     /\ IF egl_window.present
                        THEN /\ egl_window' = ResizeTo(e.a, e.b)
                             /\ trace' = (trace \o <<Ev(e)>>) \o ResizeRequests(e.a, e.b)
                             /\ UNCHANGED <<pc, result>>
                        ELSE \* egl_window.clone().unwrap() on None panics
                             /\ egl_window' = egl_window
                             /\ trace' = Append(trace, Ev(e))
                             /\ pc' = "done"
                             /\ result' = "panic"
                ELSE /\ trace' = Append(trace, Ev(e))
                     /\ UNCHANGED <<pc, result, width, height, running, egl_window>>
           ELSE IF ClosesOn(e.n)
           THEN /\ running' = FALSE
                /\ trace' = Append(trace, Ev(e))
                /\ UNCHANGED <<pc, result, width, height, egl_window>>
           ELSE /\ trace' = Append(trace, Ev(e))
                /\ UNCHANGED <<pc, result, width, height, running, egl_window>>
    /\ UNCHANGED <<wl_compositor, xdg_wm_base, handles, egl_display,
                   egl_surface, egl_context, gl_program, registry_sent, binds>>

\* ------------------------------------------------------------- main()
\* event_queue.roundtrip(&mut state)? (main.rs:268): returns once
\* everything the compositor sent before the sync reply is dispatched
Roundtrip ==
    /\ pc = "roundtrip"
    /\ \/ /\ queue = <<>>
          /\ pc' = "validate"
          /\ result' = result
       \/ /\ pc' = "done"
          /\ result' = "RoundtripError"
    /\ UNCHANGED <<appState, handles, eglState, queue, registry_sent, binds, trace>>

\* variant: the two error values are exchanged
validate_globals_swapped ==
    IF ~xdg_wm_base THEN "WlCompositorMissing"
    ELSE IF ~wl_compositor THEN "XdgWmBaseMissing"
    ELSE "Ok"

\* WaylandEGLState::validate_globals (main.rs:245-253)
validate_globals ==
    IF ~xdg_wm_base THEN "XdgWmBaseMissing"
    ELSE IF ~wl_compositor THEN "WlCompositorMissing"
    ELSE "Ok"

\* state.validate_globals()? (main.rs:269)
ValidateGlobals ==
    /\ pc = "validate"
    /\ IF validate_globals = "Ok"
       THEN pc' = "create" /\ result' = result
       ELSE pc' = "done" /\ result' = validate_globals
    /\ UNCHANGED <<appState, handles, eglState, queue, registry_sent, binds, trace>>

\* main.rs:271-296: create_surface, get_xdg_surface, get_toplevel,
\* set_title, commit
CreateSurfaces ==
    /\ pc = "create"
    /\ IF wl_compositor /\ xdg_wm_base
       THEN /\ wl_surface' = TRUE
            /\ xdg_surface' = TRUE
            /\ xdg_toplevel' = TRUE
            /\ trace' = trace \o <<Req("create_surface", 0, 0),
                                   Req("get_xdg_surface", 0, 0),
                                   Req("get_toplevel", 0, 0),
                                   Req("set_title", 0, 0),
                                   Req("commit", 0, 0)>>
            /\ pc' = "init_egl"
            /\ result' = result
       ELSE /\ UNCHANGED <<handles, trace>>
            /\ pc' = "done"
            /\ result' = "panic"
    /\ UNCHANGED <<appState, eglState, queue, registry_sent, binds>>

\* the fallible calls of init_egl in program order (main.rs:121-182)
EglStages == <<"egl_window_new", "get_display", "initialize", "choose_config",
               "create_window_surface", "create_context", "make_current",
               "init_program">>

EglCall(k) ==
    IF EglStages[k] = "egl_window_new"
    THEN Req(EglStages[k], width, height)
    ELSE Req(EglStages[k], 0, 0)

\* the calls of init_egl that returned before stage `failAt` failed
\* (failAt = 0: none failed)
EglCalls(failAt) ==
    [k \in 1..(IF failAt = 0 THEN Len(EglStages) ELSE failAt - 1) |-> EglCall(k)]

Passed(failAt, stage) ==
    \E k \in 1..Len(EglStages) :
        EglStages[k] = stage /\ (failAt = 0 \/ k < failAt)

\* WaylandEGLState::init_egl (main.rs:116-185) as called at main.rs:298
init_egl ==
    /\ pc = "init_egl"
    /\ \E failAt \in 0..Len(EglStages), program \in {0, 1} :
        /\ failAt = 0 => program = 1
        /\ (failAt # 0 /\ failAt < Len(EglStages)) => program = 0
        /\ IF wl_surface
           THEN /\ egl_window' = IF Passed(failAt, "egl_window_new")
                                 THEN Window(width, height) ELSE egl_window
                /\ egl_display' = Passed(failAt, "get_display")
                /\ egl_surface' = Passed(failAt, "create_window_surface")
                /\ egl_context' = Passed(failAt, "create_context")
                /\ gl_program' = program
                /\ trace' = trace \o EglCalls(failAt)
                /\ IF failAt = 0
                   THEN pc' = "loop_test" /\ result' = result
                   ELSE pc' = "done" /\ result' = "EglError"
           ELSE /\ UNCHANGED <<eglState, trace>>
                /\ pc' = "done"
                /\ result' = "panic"
    /\ UNCHANGED <<appState, handles, queue, registry_sent, binds>>

\* while state.running (main.rs:299)
LoopTest ==
    /\ pc = "loop_test"
    /\ IF running
       THEN Frames < MaxFrames /\ pc' = "dispatch"
       ELSE pc' = "deinit"
    /\ UNCHANGED <<result, appState, handles, eglState, queue, registry_sent, binds, trace>>

\* event_queue.dispatch_pending(&mut state)? (main.rs:300): returns when
\* the queue is drained, or with an error
DispatchPending ==
    /\ pc = "dispatch"
    /\ \/ /\ queue = <<>>
          /\ pc' = "draw"
          /\ result' = result
       \/ /\ pc' = "done"
          /\ result' = "DispatchError"
    /\ UNCHANGED <<appState, handles, eglState, queue, registry_sent, binds, trace>>

\* WaylandEGLState::draw (main.rs:228-243) as called at main.rs:302
draw ==
    /\ pc = "draw"
    /\ trace' = Append(trace, Req("draw", width, height))
    /\ pc' = "swap"
    /\ UNCHANGED <<result, appState, handles, eglState, queue, registry_sent, binds>>

\* state.egl.swap_buffers(..)? (main.rs:303-305)
SwapBuffers ==
    /\ pc = "swap"
    /\ IF egl_display /\ egl_surface
       THEN /\ trace' = Append(trace, Req("swap_buffers", 0, 0))
            /\ \/ pc' = "loop_test" /\ result' = result
               \/ pc' = "done" /\ result' = "SwapError"
       ELSE /\ trace' = trace
            /\ pc' = "done"
            /\ result' = "panic"
    /\ UNCHANGED <<appState, handles, eglState, queue, registry_sent, binds>>

\* variant: the compositing surface is destroyed before the shell surface
DeinitSteps_shellLast ==
    <<"delete_program", "destroy_surface", "destroy_context",
      "wl_surface_destroy", "xdg_surface_destroy">>

\* variant: the context is destroyed before the drawing surface
DeinitSteps_contextFirst ==
    <<"delete_program", "destroy_context", "destroy_surface",
      "xdg_surface_destroy", "wl_surface_destroy">>

\* the calls of deinit in program order (main.rs:102-111)
DeinitSteps == <<"delete_program", "destroy_surface", "destroy_context",
                 "xdg_surface_destroy", "wl_surface_destroy">>

\* the calls deinit makes when the `?` of step failAt returns early
\* (failAt = 0: no call fails); the failing call itself has been issued
DeinitCalls(failAt) ==
    [k \in 1..(IF failAt = 0 THEN Len(DeinitSteps) ELSE failAt) |->
        Req(DeinitSteps[k], 0, 0)]

\* the steps of deinit whose result is propagated with `?`
Fallible == {k \in 1..Len(DeinitSteps) :
                DeinitSteps[k] \in {"destroy_surface", "destroy_context"}}

\* WaylandEGLState::deinit (main.rs:100-114) as called at main.rs:309-311
deinit ==
    /\ pc = "deinit"
    /\ IF egl_display /\ egl_surface /\ egl_context /\ xdg_surface /\ wl_surface
       THEN \E failAt \in {0} \cup Fallible :
                /\ trace' = trace \o DeinitCalls(failAt)
                /\ result' = IF failAt = 0 THEN "Ok" ELSE "EglError"
       ELSE /\ trace' = Append(trace, Req("delete_program", 0, 0))
            /\ result' = "panic"
    /\ pc' = "done"
    /\ UNCHANGED <<appState, handles, eglState, queue, registry_sent, binds>>

Next ==
    \/ Deliver
    \/ RegistryEvent
    \/ XdgWmBaseEvent
    \/ XdgSurfaceEvent
    \/ XdgToplevelEvent
    \/ Roundtrip
    \/ ValidateGlobals
    \/ CreateSurfaces
    \/ init_egl
    \/ LoopTest
    \/ DispatchPending
    \/ draw
    \/ SwapBuffers
    \/ deinit

Spec == Init /\ [][Next]_vars

\* the values the variables range over
TypeOK ==
    /\ pc \in {"roundtrip", "validate", "create", "init_egl", "loop_test",
               "dispatch", "draw", "swap", "deinit", "done"}
    /\ running \in BOOLEAN
    /\ <<width, height>> \in ConfigureSizes \cup {<<InitialWidth, InitialHeight>>}
    /\ registry_sent \in 0..MaxGlobals
    /\ binds \subseteq Interfaces

\* =================================================================
\* Properties
\* =================================================================
IsEv(x, n)  == x.k = "ev" /\ x.n = n
IsReq(x, n) == x.k = "req" /\ x.n = n
Idx == DOMAIN trace

\* a handler is about to run on an event named n
HeadIs(n) == Dispatching /\ Head(queue).n = n
\* this step is the handler's (not dispatch_pending returning an error)
Handled == queue' = Tail(queue)

\* no event is handled strictly between positions i and k of the trace
NoEventBetween(i, k) == \A m \in Idx : (i < m /\ m < k) => trace[m].k # "ev"

\* C1: once a toplevel close event has been handled, the loop exits before
\* rendering: no draw call and no buffer swap follows the close event.
C1_NoRenderAfterClose ==
    \A i, j \in Idx :
        (i < j /\ IsEv(trace[i], "toplevel_close"))
            => trace[j].n \notin {"draw", "swap_buffers"}

\* C2: once a toplevel close event has been handled, no commit, no
\* native-window resize and no ack_configure request is issued any more.
C2_NoRequestAfterClose ==
    \A i, j \in Idx :
        (i < j /\ IsEv(trace[i], "toplevel_close"))
            => ~(trace[j].k = "req"
                 /\ trace[j].n \in {"commit", "resize", "ack_configure"})

\* C3: the native window of the graphics binding is created only after an
\* ack_configure request for the initial configure has been sent.
C3_AttachAfterAck ==
    \A j \in Idx :
        IsReq(trace[j], "egl_window_new")
            => \E i \in Idx : i < j /\ IsReq(trace[i], "ack_configure")

\* C4: when a toplevel configure is followed by the xdg_surface configure
\* that carries it, no commit is issued between the two, i.e. before the
\* ack of that serial.
C4_AckBeforeCommit ==
    \A i, k \in Idx :
        (/\ i < k
         /\ IsEv(trace[i], "toplevel_configure")
         /\ IsEv(trace[k], "xdg_surface_configure")
         /\ NoEventBetween(i, k))
            => \A m \in Idx : (i < m /\ m < k) => ~IsReq(trace[m], "commit")

AckCount(s) ==
    Cardinality({i \in Idx : trace[i] = Req("ack_configure", s, 0)})
ConfigureCount(s) ==
    Cardinality({i \in Idx : IsEv(trace[i], "xdg_surface_configure")
                             /\ trace[i].a = s})

\* C5: every handled xdg_surface configure(serial) is directly followed by
\* ack_configure(serial), before any other request, and each serial is
\* acked exactly as often as it was configured, whatever the state.
C5_ConfigureAcked ==
    /\ \A i \in Idx :
          IsEv(trace[i], "xdg_surface_configure")
              => /\ i < Len(trace)
                 /\ trace[i + 1] = Req("ack_configure", trace[i].a, 0)
    /\ \A s \in Serials : AckCount(s) = ConfigureCount(s)

\* a configure handled after the close event, in the same drain pass, is
\* acked with its own serial
C5_Witness ==
    \E i, j \in Idx :
        /\ i < j /\ j < Len(trace)
        /\ IsEv(trace[i], "toplevel_close")
        /\ IsEv(trace[j], "xdg_surface_configure") /\ trace[j].a = 2
        /\ trace[j + 1] = Req("ack_configure", 2, 0)
        /\ ~running

PingCount(s) ==
    Cardinality({i \in Idx : IsEv(trace[i], "ping") /\ trace[i].a = s})
    + Cardinality({i \in DOMAIN queue : queue[i].n = "ping" /\ queue[i].a = s})
PongCount(s) ==
    Cardinality({i \in Idx : trace[i] = Req("pong", s, 0)})

\* C6: when main() has returned normally, every ping the compositor sent
\* has been answered with one pong of the same serial.
C6_EveryPingAnswered ==
    (pc = "done" /\ result = "Ok")
        => \A s \in Serials : PongCount(s) = PingCount(s)

\* C7: a toplevel configure with width = 0 or height = 0 leaves the stored
\* width and height unchanged and issues neither a resize nor a commit.
C7_ZeroConfigureIgnored ==
    [][(/\ HeadIs("toplevel_configure")
        /\ (Head(queue).a = 0 \/ Head(queue).b = 0)
        /\ Handled)
          => /\ width' = width
             /\ height' = height
             /\ egl_window' = egl_window
             /\ trace' = Append(trace, Ev(Head(queue)))]_vars

\* configures with exactly one zero dimension, either way, were handled and
\* no resize was issued
C7_Witness ==
    /\ \E i \in Idx : IsEv(trace[i], "toplevel_configure")
                      /\ trace[i].a = 0 /\ trace[i].b # 0
    /\ \E i \in Idx : IsEv(trace[i], "toplevel_configure")
                      /\ trace[i].a # 0 /\ trace[i].b = 0
    /\ CountIf(trace, "resize", "req") = 0
    /\ width = InitialWidth /\ height = InitialHeight

\* two toplevel configures with the same dimensions and none between them
SameRun(i, k) ==
    /\ i < k
    /\ IsEv(trace[i], "toplevel_configure")
    /\ IsEv(trace[k], "toplevel_configure")
    /\ trace[i].a = trace[k].a /\ trace[i].b = trace[k].b
    /\ \A m \in Idx : (i < m /\ m < k) => ~IsEv(trace[m], "toplevel_configure")

\* C8: a toplevel configure whose dimensions equal the stored size changes
\* nothing and issues no resize and no commit; hence a configure repeating
\* the dimensions of the previous one is never followed by a resize.
C8_ConfigureIdempotent ==
    /\ [][(/\ HeadIs("toplevel_configure")
           /\ Head(queue).a = width /\ Head(queue).b = height
           /\ Handled)
             => /\ UNCHANGED <<width, height, running, egl_window>>
                /\ trace' = Append(trace, Ev(Head(queue)))]_vars
    /\ [](\A k \in Idx :
            (/\ IsEv(trace[k], "toplevel_configure")
             /\ k < Len(trace)
             /\ trace[k + 1].n \in {"resize", "commit"})
                => ~\E i \in Idx : SameRun(i, k))

\* the same non-zero size was configured twice; the first resized the
\* window, the second did not
C8_Witness ==
    \E i, k \in Idx :
        /\ SameRun(i, k)
        /\ IsReq(trace[i + 1], "resize")
        /\ trace[i].a = width /\ trace[i].b = height
        /\ CountIf(trace, "resize", "req") = 1

\* every toplevel configure handled so far had a zero dimension
OnlyZeroConfigures ==
    \A i \in Idx : IsEv(trace[i], "toplevel_configure")
                       => (trace[i].a = 0 \/ trace[i].b = 0)

\* C9: a toplevel configure with both dimensions non-zero and different
\* from the stored size stores exactly that size and issues exactly one
\* resize to it followed by exactly one commit; as long as only zero-sized
\* configures were handled the size is the initial one and nothing was
\* resized.
C9_ConfigureApplies ==
    /\ [][(/\ HeadIs("toplevel_configure")
           /\ Head(queue).a # 0 /\ Head(queue).b # 0
           /\ <<Head(queue).a, Head(queue).b>> # <<width, height>>
           /\ Handled)
             => /\ width' = Head(queue).a
                /\ height' = Head(queue).b
                /\ trace' = trace \o <<Ev(Head(queue)),
                                       Req("resize", Head(queue).a, Head(queue).b),
                                       Req("commit", 0, 0)>>]_vars
    /\ [](OnlyZeroConfigures
            => /\ width = InitialWidth /\ height = InitialHeight
               /\ CountIf(trace, "resize", "req") = 0)

\* configure(0,480) then configure(800,600): one resize, one commit, size
\* (800,600)
C9_Witness ==
    \E i \in Idx :
        /\ i + 3 = Len(trace)
        /\ trace[i] = Ev(Msg("toplevel_configure", "", 0, 480))
        /\ trace[i + 1] = Ev(Msg("toplevel_configure", "", 800, 600))
        /\ trace[i + 2] = Req("resize", 800, 600)
        /\ trace[i + 3] = Req("commit", 0, 0)
        /\ width = 800 /\ height = 600
        /\ egl_window = Window(800, 600)
        /\ CountIf(trace, "resize", "req") = 1

\* C10: the stored width and height are positive in every reachable state.
C10_SizePositive == width > 0 /\ height > 0

\* ------------------------------------------------------------ startup
SurfacesCreated == wl_surface \/ xdg_surface \/ xdg_toplevel
MissingErrors   == {"XdgWmBaseMissing", "WlCompositorMissing"}
\* main() is past validate_globals()? (or has returned its error)
Validated == pc \notin {"roundtrip", "validate"} /\ result # "RoundtripError"

\* C11: after the roundtrip, startup goes on to surface creation exactly
\* when both globals are bound; otherwise main returns the error of a global
\* that is really missing (the xdg_wm_base error whenever xdg_wm_base is
\* missing) and no wl_surface, xdg_surface or toplevel is ever created.
C11_ValidateGlobals ==
    /\ SurfacesCreated => (wl_compositor /\ xdg_wm_base)
    /\ Validated =>
          /\ (wl_compositor /\ xdg_wm_base) <=> (pc = "create" \/ SurfacesCreated)
          /\ ~(wl_compositor /\ xdg_wm_base) <=> (result \in MissingErrors)
          /\ ~xdg_wm_base <=> (result = "XdgWmBaseMissing")
          /\ (xdg_wm_base /\ ~wl_compositor) <=> (result = "WlCompositorMissing")
    /\ result \in MissingErrors
          => /\ pc = "done"
             /\ ~SurfacesCreated
             /\ \A i \in Idx :
                   trace[i].n \notin {"create_surface", "get_xdg_surface", "get_toplevel"}

\* only the shell global is missing: the shell error is reported and
\* nothing was created
C11_Witness ==
    /\ pc = "done"
    /\ wl_compositor /\ ~xdg_wm_base
    /\ result = "XdgWmBaseMissing"
    /\ ~SurfacesCreated

\* ----------------------------------------------------------- teardown
TeardownNames == {"delete_program", "destroy_surface", "destroy_context",
                  "xdg_surface_destroy", "wl_surface_destroy"}
IsTeardown(x) == x.k = "req" /\ x.n \in TeardownNames
\* the teardown calls issued so far, in program order
TeardownCalls == [i \in DOMAIN SelectSeq(trace, IsTeardown)
                     |-> SelectSeq(trace, IsTeardown)[i].n]
IsPrefix(s, t) == Len(s) <= Len(t) /\ \A i \in DOMAIN s : s[i] = t[i]
TimesCalled(n) == Cardinality({i \in Idx : IsReq(trace[i], n)})

\* C12 as stated: after a clean shutdown the resources were destroyed once
\* each in the order render program, graphics context, drawing surface,
\* shell surface, compositing surface.
C12_ContextBeforeSurface ==
    (pc = "done" /\ result = "Ok")
        => TeardownCalls = <<"delete_program", "destroy_context", "destroy_surface",
                             "xdg_surface_destroy", "wl_surface_destroy">>

\* C12 (amended): after a clean shutdown the resources were destroyed once
\* each in the order render program, drawing surface, graphics context,
\* shell surface, compositing surface; at any time the teardown calls
\* issued so far are a prefix of that order.
C12_TeardownOrder ==
    LET order == <<"delete_program", "destroy_surface", "destroy_context",
                   "xdg_surface_destroy", "wl_surface_destroy">>
    IN  /\ IsPrefix(TeardownCalls, order)
        /\ (pc = "done" /\ result = "Ok") => TeardownCalls = order

C12_Witness ==
    /\ pc = "done" /\ result = "Ok"
    /\ Len(TeardownCalls) = Cardinality(TeardownNames)

\* deinit has been entered and did not panic
TeardownRan == pc = "done" /\ result # "panic" /\ TimesCalled("delete_program") > 0

\* C13: teardown is best-effort: whenever deinit has run, every teardown
\* step was executed once, also when destroying the drawing surface or the
\* context failed, and the error is what main returns.
C13_TeardownBestEffort ==
    TeardownRan => \A n \in TeardownNames : TimesCalled(n) = 1

\* C14: when the loop ends with a dispatch or swap error, the resources
\* created so far have been torn down before main returns the error.
C14_LoopErrorTeardown ==
    (pc = "done" /\ result \in {"DispatchError", "SwapError"})
        => \A n \in TeardownNames : TimesCalled(n) = 1

\* --------------------------------------------------------- the loop
\* C15: running starts true and changes only from true to false, only in
\* the handler of a toplevel close event; once false it stays false.
C15_RunningTerminal ==
    /\ running = TRUE
    /\ [][running' # running
            => (running /\ ~running' /\ HeadIs("toplevel_close") /\ Handled)]_vars

\* main() went through the loop, the close handler and teardown with
\* running false
C15_Witness ==
    /\ ~running
    /\ pc = "done" /\ result = "Ok"
    /\ \E i \in Idx : IsEv(trace[i], "toplevel_close")

\* positions i < j of the trace lie in the same drain pass
SamePass(i, j) ==
    \A m \in Idx : (i < m /\ m < j) => trace[m].n \notin {"draw", "init_program"}

\* C16: within one drain pass no handler of another event type runs before
\* a ping queued in that pass has been answered.
C16_PingFirst ==
    \A i, j \in Idx :
        (/\ i < j
         /\ IsEv(trace[j], "ping")
         /\ trace[i].k = "ev" /\ trace[i].n # "ping")
            => ~SamePass(i, j)

ToplevelEvents == {"toplevel_configure", "toplevel_close",
                   "toplevel_configure_bounds"}
Attached == egl_window.present /\ egl_display /\ egl_surface /\ egl_context

\* C17: the toplevel handler only runs, and a resize is only requested,
\* after init_egl has succeeded: no unwrap of an absent handle panics.
C17_ResizeAfterAttach ==
    /\ result # "panic"
    /\ (Dispatching /\ Head(queue).n \in ToplevelEvents) => Attached
    /\ \A i \in Idx :
          ((trace[i].k = "ev" /\ trace[i].n \in ToplevelEvents)
              \/ IsReq(trace[i], "resize"))
            => /\ Attached
               /\ \E j \in Idx : j < i /\ IsReq(trace[j], "init_program")

\* a resize was requested on the attached window
C17_Witness ==
    \E i \in Idx : IsReq(trace[i], "resize") /\ egl_window = Window(trace[i].a, trace[i].b)

\* C18: in every teardown the drawing surface is destroyed before the
\* graphics context.
C18_SurfaceBeforeContext ==
    \A j \in Idx :
        IsReq(trace[j], "destroy_context")
            => \E i \in Idx : i < j /\ IsReq(trace[i], "destroy_surface")

C18_Witness ==
    /\ pc = "done"
    /\ \E j \in Idx : IsReq(trace[j], "destroy_context")

\* the registry event at the head of the queue is a global_remove or
\* advertises an interface other than wl_compositor and xdg_wm_base
HeadIsOtherGlobal ==
    /\ Dispatching
    /\ Head(queue).n \in RegistryEvents
    /\ ~(Head(queue).n = "global"
         /\ Head(queue).i \in {"wl_compositor", "xdg_wm_base"})

\* C19: a global of another interface and a global_remove change nothing of
\* the state and issue no request; a bound global is never unbound.
C19_RegistryIgnores ==
    /\ [][(HeadIsOtherGlobal /\ Handled)
            => UNCHANGED <<width, height, running, wl_compositor, xdg_wm_base,
                           binds, trace>>]_vars
    /\ [][/\ wl_compositor => wl_compositor'
          /\ xdg_wm_base => xdg_wm_base'
          /\ binds \subseteq binds']_vars

\* every registry event sent was handled and none of them bound anything
C19_Witness ==
    /\ registry_sent = MaxGlobals /\ queue = <<>>
    /\ ~wl_compositor /\ ~xdg_wm_base /\ binds = {}
    /\ trace = <<>>

CloseHandled == \E i \in Idx : IsEv(trace[i], "toplevel_close")

\* C20: when a close event was handled and neither dispatch_pending nor
\* swap_buffers failed, main() ends with success after every teardown step
\* ran exactly once.
C20_CloseTerminatesCleanly ==
    (/\ CloseHandled
     /\ pc = "done"
     /\ result \notin {"DispatchError", "SwapError"})
        => /\ result = "Ok"
           /\ \A n \in TeardownNames : TimesCalled(n) = 1

\* ------------------------------------------------------ window size
InLockstep == egl_window = Window(width, height)

\* C21: once the native window exists the size it was given equals the
\* stored (width, height) between any two handler invocations, so at every
\* draw and swap; each change of the stored size comes with a resize to the
\* new size in the same handler step.
C21_Lockstep ==
    /\ [](egl_window.present => InLockstep)
    /\ [](pc \in {"draw", "swap"} => InLockstep)
    /\ [][<<width, height>>' # <<width, height>>
            => /\ HeadIs("toplevel_configure") /\ Handled
               /\ egl_window' = Window(width', height')
               /\ \E i \in DOMAIN trace' :
                     /\ i > Len(trace)
                     /\ trace'[i] = Req("resize", width', height')]_vars

\* a frame is drawn after a configure changed the size
C21_Witness ==
    /\ pc = "swap"
    /\ <<width, height>> # <<InitialWidth, InitialHeight>>
    /\ InLockstep
    /\ trace[Len(trace)] = Req("draw", width, height)
    /\ \E i \in Idx : trace[i] = Req("resize", width, height)

====
